---- MODULE Spec2Model ----
(***************************************************************************)
(* Model of lib/subliminal/providers/subscenter.py: the SubsCenter         *)
(* subtitle provider (title resolution, listing query and merge, language  *)
(* filter, session lifecycle).                                             *)
(*                                                                         *)
(* Python values are represented as follows.                               *)
(*   str        a sequence of one-character strings ("" is << >>)          *)
(*   None       the one-element sequence <<"None">> where a str is         *)
(*              expected, -1 where an int is expected                      *)
(*   dict       a function; its DOMAIN is the set of keys                  *)
(*   list       a sequence                                                 *)
(* Release names are the integers of Releases, ordered as Python's string   *)
(* comparison orders the names.                                            *)
(***************************************************************************)
EXTENDS Integers, Sequences, FiniteSets, TLC

\* ------------------------------------------------------------------ bounds
\* Most leaf items one listing holds.
MaxFragments == 3
\* Most parts, between slashes, of a Location header.
MaxParts == 4
\* Most anchors of a suggestion page.
MaxSuggestions == 2
\* Most initialize and terminate calls made on one provider.
MaxCalls == 4
\* Most title resolutions and cache expirations in one series of calls.
MaxResolves == 3
\* Most entries of a downloaded archive.
MaxEntries == 3

\* ------------------------------------------------------- values and inputs
None == <<"None">>
NoneInt == -1

Movie == <<"m", "o", "v", "i", "e">>
Series == <<"s", "e", "r", "i", "e", "s">>
Subtitle == <<"s", "u", "b", "t", "i", "t", "l", "e">>
He == <<"h", "e">>
Empty == << >>

\* Python truthiness of a str-or-None and of an int-or-None
TruthyStr(s) == s /= None /\ s /= Empty
TruthyInt(n) == n /= NoneInt /\ n /= 0

\* str(x) as '{}'.format(x) renders it: None becomes the text 'None'
Format(s) == IF s = None THEN <<"N", "o", "n", "e">> ELSE s

\* the catalogue's item ids and download counters the listings draw from
SubtitleIds == {41, 42}
DownloadedCounts == {3, 5}
Releases == {1, 2}

\* language codes of the listing, and babelfish's Language.fromalpha2
LanguageCodes == {"he", "en"}
FromAlpha2(code) == IF code = "he" THEN "heb" ELSE "eng"

Groups == {"g"}
Qualities == {"hd", "sd"}
ItemKeys == {"i"}

\* A leaf of the nested listing is addressed by its four mapping keys.
Paths == LanguageCodes \X Groups \X Qualities \X ItemKeys

\* The per-leaf download key and hearing_impaired flag of the listings
\* enumerated here: the key differs from leaf to leaf, the flag is set on the
\* "hd" leaves.
KeyOf(p) == (IF p[1] = "he" THEN 100 ELSE 200) + (IF p[3] = "hd" THEN 1 ELSE 2)
HearingImpairedOf(p) == IF p[3] = "hd" THEN 1 ELSE 0

\* subtitle_item with the keys of the path that leads to it
Fragment(p, id, downloaded, release) ==
    [language_code |-> p[1], group |-> p[2], quality |-> p[3], item |-> p[4],
     hearing_impaired |-> HearingImpairedOf(p), id |-> id, key |-> KeyOf(p),
     downloaded |-> downloaded, subtitle_version |-> release]

Payloads == SubtitleIds \X DownloadedCounts \X Releases

\* every nested listing with at most n leaves (json.loads(r.text))
Listings(n) ==
    UNION {{{Fragment(p, f[p][1], f[p][2], f[p][3]) : p \in P} : f \in [P -> Payloads]} :
           P \in {Q \in SUBSET Paths : Cardinality(Q) <= n}}

\* ---------------------------------------------------------------- strings
RECURSIVE Join(_)
Join(segs) ==
    IF Len(segs) = 0 THEN Empty
    ELSE IF Len(segs) = 1 THEN segs[1]
    ELSE segs[1] \o <<"/">> \o Join(Tail(segs))

\* str.split('/')
RECURSIVE Split(_)
Split(s) ==
    IF \A i \in 1..Len(s) : s[i] /= "/" THEN <<s>>
    ELSE LET i == CHOOSE j \in 1..Len(s) :
                      s[j] = "/" /\ \A k \in 1..(j - 1) : s[k] /= "/"
         IN  <<SubSeq(s, 1, i - 1)>> \o Split(SubSeq(s, i + 1, Len(s)))

\* parts[-3] and parts[-2] of a split path exist only from three parts on
HasKindAndSlug(parts) == Len(parts) >= 3
KindSegment(parts) == parts[Len(parts) - 2]
SlugSegment(parts) == parts[Len(parts) - 1]

\* ------------------------------------------------------- search responses
\* r of the search request: status code, Location header (None when the
\* header is absent) and the hrefs of the anchors that
\* '#processes div.generalWindowTop a' selects, in document order.
Response(status, location, hrefs) ==
    [status_code |-> status, location |-> location, hrefs |-> hrefs]

\* requests.Response.is_redirect: a Location header and a redirect status
IsRedirect(r) == r.location /= None /\ r.status_code \in {301, 302, 303, 307, 308}

\* raise_for_status letting the 4xx answers through
RaisesForServerErrorOnly(status) == status >= 500

\* requests.Response.raise_for_status raises for 4xx and 5xx
RaisesForStatus(status) == status >= 400

\* Outcome of a call: a returned value or a raised exception.
Return(v) == [exc |-> "none", value |-> v]
Raise(e) == [exc |-> e, value |-> None]

\* the loop returning None as soon as the first suggestion is of another kind
FirstSuggestionOnlyHead(hrefs, kind) ==
    IF hrefs = << >> THEN Return(None)
    ELSE LET parts == Split(Head(hrefs))
         IN  IF ~HasKindAndSlug(parts) THEN Raise("IndexError")
             ELSE IF KindSegment(parts) = kind THEN Return(SlugSegment(parts))
             ELSE Return(None)

\* lines 147-152: the slug of the first suggestion of the requested kind; running off the
\* end of the loop returns None; a href of fewer than three parts raises.
RECURSIVE FirstSuggestion(_, _)
FirstSuggestion(hrefs, kind) ==
    IF hrefs = << >> THEN Return(None)
    ELSE LET parts == Split(Head(hrefs))
         IN  IF ~HasKindAndSlug(parts) THEN Raise("IndexError")
             ELSE IF KindSegment(parts) = kind THEN Return(SlugSegment(parts))
             ELSE FirstSuggestion(Tail(hrefs), kind)

\* the redirect case going on to the suggestions when the kind differs
RedirectTitleFallsThrough(r, kind) ==
    LET parts == Split(r.location)
    IN  IF ~HasKindAndSlug(parts) THEN Raise("IndexError")
        ELSE IF KindSegment(parts) = kind THEN Return(SlugSegment(parts))
        ELSE FirstSuggestion(r.hrefs, kind)

\* lines 133-141: the redirect case
RedirectTitle(r, kind) ==
    LET parts == Split(r.location)
    IN  IF ~HasKindAndSlug(parts) THEN Raise("IndexError")
        ELSE IF KindSegment(parts) = kind THEN Return(SlugSegment(parts))
        ELSE Return(None)

\* lines 133-152: the body of _search_url_title once the response is in
ParseSearch(r, kind) ==
    IF IsRedirect(r) THEN RedirectTitle(r, kind) ELSE FirstSuggestion(r.hrefs, kind)

\* ------------------------------------------------------------------ merge
\* bisect.bisect_left(a, x, lo, hi): the binary search of the library
RECURSIVE BisectLeft(_, _, _, _)
BisectLeft(a, x, lo, hi) ==
    IF lo < hi
    THEN LET mid == (lo + hi) \div 2
         IN  IF a[mid + 1] < x THEN BisectLeft(a, x, mid + 1, hi)
             ELSE BisectLeft(a, x, lo, mid)
    ELSE lo

\* a.append(x) in the place of the sorted insertion
InsortLeftAppends(a, x) == Append(a, x)

\* bisect.insort_left(a, x): a.insert(bisect_left(a, x), x)
InsortLeft(a, x) ==
    LET lo == BisectLeft(a, x, 0, Len(a))
    IN  SubSeq(a, 1, lo) \o <<x>> \o SubSeq(a, lo + 1, Len(a))

\* SubsCenterSubtitle(...) as query constructs it (lines 180-185, 195-196)
SubsCenterSubtitle(language, hearing_impaired, page_link, series, season, episode, title, subtitle_id, subtitle_key, downloaded, releases) ==
    [language |-> language, hearing_impaired |-> hearing_impaired, page_link |-> page_link,
     series |-> series, season |-> season, episode |-> episode, title |-> title,
     subtitle_id |-> subtitle_id, subtitle_key |-> subtitle_key,
     downloaded |-> downloaded, releases |-> releases]

\* the loop body with the dict keyed by the download key, not the id
MergeItemByKey(subs, subtitle_item, page_link, a) ==
    IF subtitle_item.key \in DOMAIN subs
    THEN [subs EXCEPT ![subtitle_item.key] =
             [@ EXCEPT !.releases = InsortLeft(@, subtitle_item.subtitle_version),
                       !.downloaded = @ + subtitle_item.downloaded]]
    ELSE (subtitle_item.key :>
             SubsCenterSubtitle(FromAlpha2(subtitle_item.language_code),
                                subtitle_item.hearing_impaired /= 0, page_link, a.series,
                                a.season, a.episode, a.title, subtitle_item.id,
                                subtitle_item.key, subtitle_item.downloaded,
                                <<subtitle_item.subtitle_version>>)) @@ subs

\* the loop body with 'downloaded = downloaded' in the place of '+='
MergeItemOverwrites(subs, subtitle_item, page_link, a) ==
    IF subtitle_item.id \in DOMAIN subs
    THEN [subs EXCEPT ![subtitle_item.id] =
             [@ EXCEPT !.releases = InsortLeft(@, subtitle_item.subtitle_version),
                       !.downloaded = subtitle_item.downloaded]]
    ELSE (subtitle_item.id :>
             SubsCenterSubtitle(FromAlpha2(subtitle_item.language_code),
                                subtitle_item.hearing_impaired /= 0, page_link, a.series,
                                a.season, a.episode, a.title, subtitle_item.id,
                                subtitle_item.key, subtitle_item.downloaded,
                                <<subtitle_item.subtitle_version>>)) @@ subs

\* the loop body merging a leaf only into a record of the leaf's own language,
\* as a language filter applied before the merge would
MergeItemOwnLanguage(subs, subtitle_item, page_link, a) ==
    IF subtitle_item.id \in DOMAIN subs
    THEN IF subs[subtitle_item.id].language = FromAlpha2(subtitle_item.language_code)
         THEN [subs EXCEPT ![subtitle_item.id] =
                  [@ EXCEPT !.releases = InsortLeft(@, subtitle_item.subtitle_version),
                            !.downloaded = @ + subtitle_item.downloaded]]
         ELSE subs
    ELSE (subtitle_item.id :>
             SubsCenterSubtitle(FromAlpha2(subtitle_item.language_code),
                                subtitle_item.hearing_impaired /= 0, page_link, a.series,
                                a.season, a.episode, a.title, subtitle_item.id,
                                subtitle_item.key, subtitle_item.downloaded,
                                <<subtitle_item.subtitle_version>>)) @@ subs

\* the loop body with the record taking the language, flag and key of the
\* fragment merged into it
MergeItemTakesLast(subs, subtitle_item, page_link, a) ==
    IF subtitle_item.id \in DOMAIN subs
    THEN [subs EXCEPT ![subtitle_item.id] =
             [@ EXCEPT !.releases = InsortLeft(@, subtitle_item.subtitle_version),
                       !.downloaded = @ + subtitle_item.downloaded,
                       !.language = FromAlpha2(subtitle_item.language_code),
                       !.hearing_impaired = subtitle_item.hearing_impaired /= 0,
                       !.subtitle_key = subtitle_item.key]]
    ELSE (subtitle_item.id :>
             SubsCenterSubtitle(FromAlpha2(subtitle_item.language_code),
                                subtitle_item.hearing_impaired /= 0, page_link, a.series,
                                a.season, a.episode, a.title, subtitle_item.id,
                                subtitle_item.key, subtitle_item.downloaded,
                                <<subtitle_item.subtitle_version>>)) @@ subs

\* lines 179-198: one pass of the innermost loop body over subtitle_item
MergeItem(subs, subtitle_item, page_link, a) ==
    LET language == FromAlpha2(subtitle_item.language_code)
        hearing_impaired == subtitle_item.hearing_impaired /= 0
        subtitle_id == subtitle_item.id
        subtitle_key == subtitle_item.key
        downloaded == subtitle_item.downloaded
        release == subtitle_item.subtitle_version
    IN  IF subtitle_id \in DOMAIN subs
        THEN [subs EXCEPT ![subtitle_id] =
                 [@ EXCEPT !.releases = InsortLeft(@, release),
                           !.downloaded = @ + downloaded]]
        ELSE (subtitle_id :>
                 SubsCenterSubtitle(language, hearing_impaired, page_link, a.series,
                                    a.season, a.episode, a.title, subtitle_id,
                                    subtitle_key, downloaded, <<release>>)) @@ subs

\* subtitles.values(): the records, here in ascending key order (the order of
\* a dict's values is unspecified and nothing below depends on it)
RECURSIVE Values(_)
Values(subs) ==
    IF DOMAIN subs = {} THEN << >>
    ELSE LET k == CHOOSE x \in DOMAIN subs : \A y \in DOMAIN subs : x <= y
         IN  <<subs[k]>> \o Values([y \in DOMAIN subs \ {k} |-> subs[y]])

\* line 213: [s for s in ... if s.language in languages]
RECURSIVE FilterLanguages(_, _)
FilterLanguages(subs, languages) ==
    IF subs = << >> THEN << >>
    ELSE (IF Head(subs).language \in languages THEN <<Head(subs)>> ELSE << >>)
         \o FilterLanguages(Tail(subs), languages)

\* ------------------------------------------------------------------ cache
\* The key region.cache_on_arguments gives a call: the arguments of the
\* decorated function after self, here title and kind.
CacheKeyTitleOnly(title, kind) == <<title, None>>

CacheKey(title, kind) == <<title, kind>>

\* region's get_or_compute, taken apart: a value is kept under its key until
\* the expiration time has passed
CacheHas(c, key) == key \in DOMAIN c
CacheGet(c, key) == c[key]
CachePut(c, key, value) == (key :> value) @@ c

\* one finished _search_url_title call, as the caller and the site saw it
Resolved(title, kind, requested, e, value) ==
    [key |-> <<title, kind>>, requested |-> requested, exc |-> e, value |-> value]
\* the entry kept under a key reaching its expiration time
Expired(key) == [key |-> key, requested |-> FALSE, exc |-> "expired", value |-> None]

\* ------------------------------------------------------------------ state
VARIABLES
    call,            \* the call under way: its operation and arguments
    pc,              \* position of the call in the code
    args,            \* query's parameters series, season, episode, title
    search_title,    \* _search_url_title's parameter title
    kind,            \* _search_url_title's parameter kind
    r,               \* the response of the search request
    suggestions,     \* the anchors selected from the suggestion page (line 145)
    url_title,       \* url_series / url_title: what _search_url_title returned
    url,             \* the listing address query formats
    page_link,       \* the page link query formats
    requests,        \* the requests sent on the session, in order
    searchResponse,  \* the site's answer to the search request
    listing,         \* the nested listing the site serves, as its set of leaves
    remaining,       \* leaves of results the loops have not reached yet
    cur,             \* the leaf the loops are at
    subtitles,       \* the dict subtitles of query
    query_result,    \* what query returned
    list_result,     \* what list_subtitles returned
    exc,             \* the exception the call raised, "none" when none
    cache,           \* region's cache of _search_url_title
    username,        \* self.username
    password,        \* self.password
    logged_in,       \* self.logged_in
    session,         \* self.session: the number of the Session object, 0 before any
    open_sessions,   \* the Session objects created and not closed
    ncalls,          \* initialize and terminate calls made so far
    history,         \* the _search_url_title calls so far, each with its outcome
    zf,              \* the entries of the archive download_subtitle opens
    subtitle,        \* the record given to download_subtitle and get_matches
    video,           \* the video given to get_matches
    matches          \* what get_matches returned

vars == <<call, pc, args, search_title, kind, r, suggestions, url_title, url, page_link,
          requests, searchResponse, listing, remaining, cur, subtitles, query_result,
          list_result, exc, cache, username, password, logged_in, session, open_sessions,
          ncalls, history, zf, subtitle, video, matches>>

\* the state of a download_subtitle or get_matches call
recordVars == <<zf, subtitle, video, matches>>

\* the state of the provider object and of its sessions
sessionVars == <<username, password, logged_in, session, open_sessions, ncalls>>

\* the state of a query or list_subtitles call
queryVars == <<args, search_title, kind, r, suggestions, url_title, url, page_link,
               searchResponse, listing, remaining, cur, subtitles, query_result,
               list_result, cache>>

NoResponse == Response(0, None, << >>)
NoSuggestions == <<None>>
NoArgs == [series |-> None, season |-> NoneInt, episode |-> NoneInt, title |-> None]
NoUrl == [endpoint |-> "none", kind |-> Empty, slug |-> Empty, season |-> NoneInt, episode |-> NoneInt]
NoFragment == [language_code |-> "", group |-> "", quality |-> "", item |-> ""]
NotReturned == <<[subtitle_id |-> NoneInt]>>

\* lines 158 and 162: the listing address; lines 159 and 163: the page link
ListingUrl(k, slug, a) ==
    [endpoint |-> "cinemast/data", kind |-> k, slug |-> Format(slug),
     season |-> IF k = Series THEN a.season ELSE NoneInt,
     episode |-> IF k = Series THEN a.episode ELSE NoneInt]
PageLink(k, slug, a) ==
    [endpoint |-> "subtitle", kind |-> k, slug |-> Format(slug),
     season |-> IF k = Series THEN a.season ELSE NoneInt,
     episode |-> IF k = Series THEN a.episode ELSE NoneInt]

\* the branches with only series tested in the first condition
QueryKindSeriesOnly(a) ==
    IF TruthyStr(a.series) THEN Series
    ELSE IF TruthyStr(a.title) THEN Movie
    ELSE None

\* the branches with the title tested first
QueryKindTitleFirst(a) ==
    IF TruthyStr(a.title) THEN Movie
    ELSE IF TruthyStr(a.series) /\ TruthyInt(a.season) /\ TruthyInt(a.episode) THEN Series
    ELSE None

\* lines 156-165: which branch query takes
QueryKind(a) ==
    IF TruthyStr(a.series) /\ TruthyInt(a.season) /\ TruthyInt(a.episode) THEN Series
    ELSE IF TruthyStr(a.title) THEN Movie
    ELSE None

\* lines 203-211: the arguments list_subtitles passes to query
ListArgs(v) ==
    IF v.type = "Episode"
    THEN [series |-> v.series, season |-> v.season, episode |-> v.episode, title |-> v.title]
    ELSE [series |-> None, season |-> NoneInt, episode |-> NoneInt, title |-> v.title]

\* The nested for loops of lines 175-178 finish the innermost mapping they are
\* in before they move on: f can come next only if no leaf that shares more
\* of the path of the current leaf is still waiting.
Shared(f, g) ==
    IF f.language_code /= g.language_code THEN 0
    ELSE IF f.group /= g.group THEN 1
    ELSE IF f.quality /= g.quality THEN 2
    ELSE 3
CanComeNext(f, at, rest) ==
    at = NoFragment \/ \A g \in rest : Shared(g, at) <= Shared(f, at)

\* ---------------------------------------------------------------- actions
\* lines 202-213, up to the call of query
list_subtitles ==
    /\ UNCHANGED sessionVars
    /\ UNCHANGED <<history, zf, subtitle, video, matches>>
    /\ pc = "list_subtitles"
    /\ args' = ListArgs(call.video)
    /\ pc' = "query"
    /\ UNCHANGED <<call, search_title, kind, r, suggestions, url_title, url, page_link,
                   requests, searchResponse, listing, remaining, cur, subtitles,
                   query_result, list_result, exc, cache>>

\* lines 154-165, up to the call of _search_url_title or the ValueError
query ==
    /\ UNCHANGED sessionVars
    /\ UNCHANGED <<history, zf, subtitle, video, matches>>
    /\ pc = "query"
    /\ IF QueryKind(args) = None
       THEN /\ exc' = "ValueError"
            /\ pc' = "raised"
            /\ UNCHANGED <<search_title, kind>>
       ELSE /\ kind' = QueryKind(args)
            /\ search_title' = IF QueryKind(args) = Series THEN args.series ELSE args.title
            /\ pc' = "search"
            /\ exc' = exc
    /\ UNCHANGED <<call, args, r, suggestions, url_title, url, page_link, requests,
                   searchResponse, listing, remaining, cur, subtitles, query_result,
                   list_result, cache>>

\* lines 118 and 128-131: the cached value, or else the search request
search ==
    /\ UNCHANGED sessionVars
    /\ pc = "search"
    /\ IF CacheHas(cache, CacheKey(search_title, kind))
       THEN /\ url_title' = CacheGet(cache, CacheKey(search_title, kind))
            /\ history' = Append(history, Resolved(search_title, kind, FALSE, "none",
                                                   CacheGet(cache, CacheKey(search_title, kind))))
            /\ pc' = "resolved"
            /\ UNCHANGED <<r, requests, exc>>
       ELSE /\ requests' = Append(requests, "search")
            /\ r' = searchResponse
            /\ IF RaisesForStatus(searchResponse.status_code)
               THEN /\ exc' = "HTTPError"
                    /\ pc' = "raised"
                    /\ history' = Append(history, Resolved(search_title, kind, TRUE,
                                                           "HTTPError", None))
               ELSE /\ exc' = exc
                    /\ pc' = "parse"
                    /\ history' = history
            /\ url_title' = url_title
    /\ UNCHANGED recordVars
    /\ UNCHANGED <<call, args, search_title, kind, suggestions, url, page_link,
                   searchResponse, listing, remaining, cur, subtitles, query_result,
                   list_result, cache>>

\* lines 133-152: the slug out of the response, stored in the cache
parse ==
    /\ UNCHANGED sessionVars
    /\ pc = "parse"
    /\ suggestions' = IF IsRedirect(r) THEN suggestions ELSE r.hrefs
    /\ LET out == ParseSearch(r, kind)
       IN  IF out.exc /= "none"
           THEN /\ exc' = out.exc
                /\ pc' = "raised"
                /\ history' = Append(history, Resolved(search_title, kind, TRUE, out.exc, None))
                /\ UNCHANGED <<url_title, cache>>
           ELSE /\ url_title' = out.value
                /\ cache' = CachePut(cache, CacheKey(search_title, kind), out.value)
                /\ history' = Append(history, Resolved(search_title, kind, TRUE, "none",
                                                       out.value))
                /\ pc' = "resolved"
                /\ exc' = exc
    /\ UNCHANGED recordVars
    /\ UNCHANGED <<call, args, search_title, kind, r, url, page_link, requests,
                   searchResponse, listing, remaining, cur, subtitles, query_result,
                   list_result>>

\* lines 158-174: the addresses, the listing request, json.loads
get_listing ==
    /\ UNCHANGED sessionVars
    /\ UNCHANGED <<history, zf, subtitle, video, matches>>
    /\ pc = "resolved"
    /\ call.op /= "_search_url_title"
    /\ url' = ListingUrl(kind, url_title, args)
    /\ page_link' = PageLink(kind, url_title, args)
    /\ requests' = Append(requests, "listing")
    /\ \E status \in {200, 404} :
          /\ r' = Response(status, None, << >>)
          /\ IF RaisesForStatus(status)
             THEN /\ exc' = "HTTPError"
                  /\ pc' = "raised"
                  /\ UNCHANGED <<remaining, subtitles>>
             ELSE /\ remaining' = listing
                  /\ subtitles' = << >>
                  /\ pc' = "loop"
                  /\ exc' = exc
    /\ UNCHANGED <<call, args, search_title, kind, suggestions, url_title,
                   searchResponse, listing, cur, query_result, list_result, cache>>

\* lines 175-198: the loop body for the next leaf
loop_item ==
    /\ UNCHANGED sessionVars
    /\ UNCHANGED <<history, zf, subtitle, video, matches>>
    /\ pc = "loop"
    /\ \E subtitle_item \in remaining :
          /\ CanComeNext(subtitle_item, cur, remaining)
          /\ subtitles' = MergeItem(subtitles, subtitle_item, page_link, args)
          /\ cur' = subtitle_item
          /\ remaining' = remaining \ {subtitle_item}
    /\ UNCHANGED <<call, pc, args, search_title, kind, r, suggestions, url_title, url,
                   page_link, requests, searchResponse, listing, query_result,
                   list_result, exc, cache>>

\* line 200: query returns once the loops are through
query_return ==
    /\ UNCHANGED sessionVars
    /\ UNCHANGED <<history, zf, subtitle, video, matches>>
    /\ pc = "loop"
    /\ remaining = {}
    /\ query_result' = Values(subtitles)
    /\ pc' = IF call.op = "list_subtitles" THEN "filter" ELSE "returned"
    /\ UNCHANGED <<call, args, search_title, kind, r, suggestions, url_title, url,
                   page_link, requests, searchResponse, listing, remaining, cur,
                   subtitles, list_result, exc, cache>>

\* line 213: list_subtitles filters what query returned
list_return ==
    /\ UNCHANGED sessionVars
    /\ UNCHANGED <<history, zf, subtitle, video, matches>>
    /\ pc = "filter"
    /\ list_result' = FilterLanguages(query_result, call.languages)
    /\ pc' = "returned"
    /\ UNCHANGED <<call, args, search_title, kind, r, suggestions, url_title, url,
                   page_link, requests, searchResponse, listing, remaining, cur,
                   subtitles, query_result, exc, cache>>

\* ----------------------------------------------------------------- inputs
Episode(series, season, episode, title) ==
    [type |-> "Episode", series |-> series, season |-> season, episode |-> episode,
     title |-> title]
MovieVideo(title) ==
    [type |-> "Movie", series |-> None, season |-> NoneInt, episode |-> NoneInt,
     title |-> title]

StrArgs == {None, Empty, <<"t">>}
IntArgs == {NoneInt, 0, 1}

\* query(series, season, episode, title) with every mix of absent, falsy and
\* truthy arguments
QueryCalls ==
    {[op |-> "query", video |-> MovieVideo(None), languages |-> {},
      series |-> s, season |-> n, episode |-> e, title |-> t] :
       s \in StrArgs, n \in IntArgs, e \in IntArgs, t \in StrArgs}

Videos == {Episode(<<"s">>, 1, 1, <<"t">>), MovieVideo(<<"t">>)}

ListCalls ==
    {[op |-> "list_subtitles", video |-> v, languages |-> l,
      series |-> None, season |-> NoneInt, episode |-> NoneInt, title |-> None] :
       v \in Videos, l \in {{"heb"}, {"heb", "eng"}}}

Path(segs) == Join(<<Empty, He, Subtitle>> \o segs \o <<Empty>>)

\* answers of the site to a search: a redirect to a series or a movie page,
\* a suggestion page, an error
PlainSearchResponses ==
    {Response(302, Path(<<Series, <<"a">>>>), << >>),
     Response(302, Path(<<Movie, <<"a">>>>), << >>),
     Response(200, None, <<Path(<<Movie, <<"b">>>>), Path(<<Series, <<"c">>>>)>>),
     Response(200, None, << >>),
     Response(404, None, << >>)}

NoRecord == [subtitle_id |-> NoneInt]
NoVideo == [type |-> "none"]

InitLocals ==
    /\ history = << >>
    /\ zf = << >>
    /\ subtitle = NoRecord
    /\ video = NoVideo
    /\ matches = {}
    /\ r = NoResponse
    /\ suggestions = NoSuggestions
    /\ url_title = None
    /\ url = NoUrl
    /\ page_link = NoUrl
    /\ requests = << >>
    /\ remaining = {}
    /\ cur = NoFragment
    /\ subtitles = << >>
    /\ query_result = NotReturned
    /\ list_result = NotReturned
    /\ exc = "none"

\* initialize has run without credentials: one Session, open
InitSessionOpen ==
    /\ username = None
    /\ password = None
    /\ logged_in = FALSE
    /\ session = 1
    /\ open_sessions = {1}
    /\ ncalls = 0

\* A provider with its session open, about to serve one call: either any
\* query call against a short listing, or a list_subtitles call against any
\* listing of up to MaxFragments leaves.
Init ==
    /\ InitLocals
    /\ InitSessionOpen
    /\ cache = << >>
    /\ search_title = None
    /\ kind = None
    /\ \/ /\ call \in QueryCalls
          /\ args = [series |-> call.series, season |-> call.season,
                     episode |-> call.episode, title |-> call.title]
          /\ pc = "query"
          /\ searchResponse \in PlainSearchResponses
          /\ listing \in Listings(1)
       \/ /\ call \in ListCalls
          /\ args = NoArgs
          /\ pc = "list_subtitles"
          /\ searchResponse = Response(200, None, <<Path(<<Movie, <<"b">>>>), Path(<<Series, <<"c">>>>)>>)
          /\ listing \in Listings(MaxFragments)

Next ==
    \/ list_subtitles
    \/ query
    \/ search
    \/ parse
    \/ get_listing
    \/ loop_item
    \/ query_return
    \/ list_return

Spec == Init /\ [][Next]_vars

\* ------------------------------------------------- properties of the merge
Range(seq) == {seq[i] : i \in 1..Len(seq)}

RECURSIVE SumDownloaded(_)
SumDownloaded(F) ==
    IF F = {} THEN 0
    ELSE LET f == CHOOSE g \in F : TRUE
         IN  f.downloaded + SumDownloaded(F \ {f})

\* the leaves of the listing that carry an id
FragmentsOf(id) == {f \in listing : f.id = id}

\* query has returned its collection
QueryReturned == pc \in {"filter", "returned"} /\ call.op /= "_search_url_title"

\* C1: the collection query returns holds exactly one record per distinct id
\* of the listing: no two records share an id, and every leaf's id has a record.
C1_OneRecordPerId ==
    QueryReturned =>
        /\ \A i, j \in 1..Len(query_result) :
              i /= j => query_result[i].subtitle_id /= query_result[j].subtitle_id
        /\ {s.subtitle_id : s \in Range(query_result)} = {f.id : f \in listing}

\* C1 witness: three leaves, two of them sharing an id, returned as two records
C1_Witness ==
    /\ QueryReturned
    /\ Cardinality(listing) = 3
    /\ Len(query_result) = 2

\* C2: every returned record's releases are sorted ascending and hold no value twice
C2_ReleasesSortedNoDuplicate ==
    QueryReturned =>
        \A s \in Range(query_result) :
           \A i, j \in 1..Len(s.releases) : i < j => s.releases[i] < s.releases[j]

\* C3: a returned record's downloaded equals the sum of 'downloaded' over all
\* leaves carrying its id, whatever their language, group and quality.
C3_DownloadedIsSum ==
    QueryReturned =>
        /\ \A id \in {f.id : f \in listing} :
              \E s \in Range(query_result) : s.subtitle_id = id
        /\ \A s \in Range(query_result) :
              s.downloaded = SumDownloaded(FragmentsOf(s.subtitle_id))

\* C3 witness: a record summing leaves of two languages with different counts
C3_Witness ==
    /\ QueryReturned
    /\ \E s \in Range(query_result) :
          /\ s.downloaded = 8
          /\ \E f, g \in FragmentsOf(s.subtitle_id) :
                f.language_code /= g.language_code /\ f.downloaded /= g.downloaded

\* the sorted arrangement of the release names of the leaves F, which no
\* traversal order enters into
IsSortedBagOf(releases, F) ==
    /\ Len(releases) = Cardinality(F)
    /\ \A i, j \in 1..Len(releases) : i < j => releases[i] <= releases[j]
    /\ \A x \in Releases :
          Cardinality({i \in 1..Len(releases) : releases[i] = x})
              = Cardinality({f \in F : f.subtitle_version = x})

\* C4: merging is order-independent. Every traversal order of a listing ends
\* in the mapping the listing alone determines (its ids, for each id the sorted
\* arrangement of its release names and the total of its counts), so any two
\* orders end in the same mapping.
C4_OrderIndependent ==
    QueryReturned =>
        /\ DOMAIN subtitles = {f.id : f \in listing}
        /\ \A id \in DOMAIN subtitles :
              /\ IsSortedBagOf(subtitles[id].releases, FragmentsOf(id))
              /\ subtitles[id].downloaded = SumDownloaded(FragmentsOf(id))

\* C4 witness: a traversal that met the greater release name of an id first
C4_Witness ==
    /\ QueryReturned
    /\ \E f \in listing :
          /\ cur = f
          /\ \E g \in FragmentsOf(f.id) : g.subtitle_version > f.subtitle_version
          /\ Cardinality(FragmentsOf(f.id)) = 3

\* the resolver returned None for the title of the call
ResolvedAbsent ==
    /\ <<search_title, kind>> \in DOMAIN cache
    /\ cache[<<search_title, kind>>] = None

\* C5: once the resolver has returned None, query sends no listing request,
\* does not enter the loops and returns no collection.
C5_AbsentTitleFailsQuery ==
    (call.op /= "_search_url_title" /\ ResolvedAbsent) =>
        /\ "listing" \notin Range(requests)
        /\ pc \notin {"loop", "filter"}
        /\ ~QueryReturned

\* the arguments as the caller supplied them
FullTriple(a) == a.series /= None /\ a.season /= NoneInt /\ a.episode /= NoneInt
PartialTriple(a) ==
    /\ ~FullTriple(a)
    /\ (a.series /= None \/ a.season /= NoneInt \/ a.episode /= NoneInt)
TitleSupplied(a) == a.title /= None
Dispatched == pc \notin {"list_subtitles", "query"}

\* C7: query with neither a full episode triple nor a title raises ValueError,
\* and no request has been sent when it is raised.
C7_NeitherRaisesValueError ==
    /\ (Dispatched /\ ~FullTriple(args) /\ ~TitleSupplied(args)) =>
          (pc = "raised" /\ exc = "ValueError" /\ requests = << >>)
    /\ exc = "ValueError" => requests = << >>

\* C7 witness: the ValueError of a call with a partial triple and no title
C7_Witness ==
    /\ pc = "raised"
    /\ exc = "ValueError"
    /\ args.series = <<"t">>
    /\ args.season = NoneInt
    /\ args.title = None

\* C8 as claimed: requests are sent only when exactly one of the full triple
\* and the title is supplied, and a partial triple fails fast with or without a title.
C8_ExactlyOneOrFailFast ==
    /\ requests /= << >> => (FullTriple(args) /= TitleSupplied(args))
    /\ (Dispatched /\ PartialTriple(args)) =>
          (pc = "raised" /\ exc = "ValueError" /\ requests = << >>)

\* C8 amended: requests are sent only when the full triple or the title is
\* supplied (both may be: the query is then a series query when series, season
\* and episode are all truthy); a partial triple without a title fails fast with
\* ValueError before any request; a partial triple with a non-empty title goes
\* on as a movie query for the title.
C8_AtLeastOneOrFailFast ==
    /\ requests /= << >> => (FullTriple(args) \/ TitleSupplied(args))
    /\ (Dispatched /\ PartialTriple(args) /\ ~TitleSupplied(args)) =>
          (pc = "raised" /\ exc = "ValueError" /\ requests = << >>)
    /\ (Dispatched /\ PartialTriple(args) /\ TruthyStr(args.title)) =>
          (kind = Movie /\ search_title = args.title /\ exc /= "ValueError")
    /\ (Dispatched /\ TruthyStr(args.series) /\ TruthyInt(args.season)
           /\ TruthyInt(args.episode) /\ TitleSupplied(args)) =>
          (kind = Series /\ search_title = args.series /\ exc /= "ValueError")

\* C8 witness: both the full triple and the title supplied, and the search sent
\* for the series
C8_Witness ==
    /\ FullTriple(args)
    /\ TruthyStr(args.title)
    /\ kind = Series
    /\ requests /= << >>

\* C9: list_subtitles returns exactly the merged records whose language is
\* requested, and every leaf of the listing, those of a language not requested
\* included, is counted in the record of its id.
C9_FilterAfterMerge ==
    (pc = "returned" /\ call.op = "list_subtitles") =>
        /\ Range(list_result)
              = {s \in Range(query_result) : s.language \in call.languages}
        /\ Len(list_result)
              = Cardinality({i \in 1..Len(query_result) :
                               query_result[i].language \in call.languages})
        /\ \A s \in Range(query_result) :
              /\ s.downloaded = SumDownloaded(FragmentsOf(s.subtitle_id))
              /\ Len(s.releases) = Cardinality(FragmentsOf(s.subtitle_id))
              /\ \A f \in FragmentsOf(s.subtitle_id) :
                    f.subtitle_version \in Range(s.releases)

\* C9 witness: a returned Hebrew record that counts a leaf filed under
\* English, with only Hebrew requested
C9_Witness ==
    /\ pc = "returned"
    /\ call.op = "list_subtitles"
    /\ call.languages = {"heb"}
    /\ \E s \in Range(list_result) :
          /\ s.language = "heb"
          /\ \E f \in FragmentsOf(s.subtitle_id) : f.language_code = "en"
          /\ Len(s.releases) >= 2

\* --------------------------------------------------- the resolver by itself
SeqsUpTo(S, n) == UNION {[1..m -> S] : m \in 0..n}

Segments == {Empty, Movie, Series, <<"a">>}
Locations == {Join(segs) : segs \in SeqsUpTo(Segments, MaxParts) \ {<< >>}}
SuggestionHrefs ==
    {Path(<<Movie, <<"b">>>>), Path(<<Movie, <<"d">>>>), Path(<<Series, <<"c">>>>), <<"x">>}

\* every answer to the search request: any status, with or without a Location
\* header, over any suggestion page of up to MaxSuggestions anchors
SearchResponses ==
    {Response(status, location, hrefs) :
        status \in {200, 302, 404},
        location \in Locations \cup {None},
        hrefs \in SeqsUpTo(SuggestionHrefs, MaxSuggestions)}

\* _search_url_title(title, kind) called on a provider with its session open
InitResolve ==
    /\ InitLocals
    /\ InitSessionOpen
    /\ cache = << >>
    /\ call \in {[op |-> "_search_url_title", title |-> <<"t">>, kind |-> k] :
                    k \in {Movie, Series}}
    /\ search_title = call.title
    /\ kind = call.kind
    /\ args = NoArgs
    /\ pc = "search"
    /\ searchResponse \in SearchResponses
    /\ listing = {}

NextResolve ==
    \/ search
    \/ parse

SpecResolve == InitResolve /\ [][NextResolve]_vars

\* the text between the last slashes of a path, found by position
LastSlashBefore(s, n) ==
    IF \E i \in 1..(n - 1) : s[i] = "/"
    THEN CHOOSE i \in 1..(n - 1) : s[i] = "/" /\ \A j \in (i + 1)..(n - 1) : s[j] /= "/"
    ELSE 0
Between(s, lo, hi) == SubSeq(s, lo + 1, hi - 1)

\* C10: on a redirect whose target has a kind and a slug segment,
\* _search_url_title returns the slug segment when the kind segment equals the
\* requested kind and None when it differs, and reads no suggestion.
C10_RedirectSlugIffKind ==
    (pc \in {"resolved", "raised"} /\ IsRedirect(r)) =>
        LET loc == r.location
            p3 == LastSlashBefore(loc, Len(loc) + 1)
            p2 == LastSlashBefore(loc, p3)
            p1 == LastSlashBefore(loc, p2)
        IN  /\ suggestions = NoSuggestions
            /\ (p3 > 0 /\ p2 > 0) =>
                  /\ pc = "resolved"
                  /\ Between(loc, p1, p2) = kind => url_title = Between(loc, p2, p3)
                  /\ Between(loc, p1, p2) /= kind => url_title = None

\* C10 witness: a redirect to a series page answers a movie search with None
\* although the suggestion list of the response holds a movie
C10_Witness ==
    /\ pc = "resolved"
    /\ IsRedirect(r)
    /\ kind = Movie
    /\ r.location = Join(<<Empty, Series, <<"a">>, Empty>>)
    /\ Path(<<Movie, <<"b">>>>) \in Range(r.hrefs)
    /\ url_title = None

\* a href with a kind and a slug segment, and the two segments by position
HasTwoSlashes(s) == LastSlashBefore(s, LastSlashBefore(s, Len(s) + 1)) > 0
KindOf(s) ==
    LET p3 == LastSlashBefore(s, Len(s) + 1)
        p2 == LastSlashBefore(s, p3)
    IN  Between(s, LastSlashBefore(s, p2), p2)
SlugOf(s) ==
    LET p3 == LastSlashBefore(s, Len(s) + 1)
    IN  Between(s, LastSlashBefore(s, p3), p3)

\* C11: on an answer that is no redirect, _search_url_title returns the slug
\* of the first suggestion, in document order, whose kind segment equals the
\* requested kind, passing over every earlier suggestion of another kind, and
\* None when no suggestion matches or there is none (suggestions with a kind
\* and a slug segment).
C11_FirstMatchingSuggestion ==
    (pc \in {"resolved", "raised"} /\ r /= NoResponse /\ r.status_code < 400
        /\ ~IsRedirect(r) /\ \A i \in 1..Len(r.hrefs) : HasTwoSlashes(r.hrefs[i])) =>
        LET matching == {i \in 1..Len(r.hrefs) : KindOf(r.hrefs[i]) = kind}
        IN  /\ pc = "resolved"
            /\ suggestions = r.hrefs
            /\ matching = {} => url_title = None
            /\ \A i \in matching :
                  (\A j \in matching : i <= j) => url_title = SlugOf(r.hrefs[i])

\* C11 witness: a series suggestion passed over, the movie after it returned
C11_Witness ==
    /\ pc = "resolved"
    /\ ~IsRedirect(r)
    /\ kind = Movie
    /\ r.hrefs = <<Path(<<Series, <<"c">>>>), Path(<<Movie, <<"d">>>>)>>
    /\ url_title = <<"d">>

\* ------------------------------------------------- the frame of the merge
\* one pass of the loop body, as the claim C17 describes it: the fragment
\* just traversed is cur'
MergeFrame ==
    (pc = "loop" /\ pc' = "loop" /\ remaining' /= remaining) =>
        /\ \A id \in DOMAIN subtitles :
              /\ id \in DOMAIN subtitles'
              /\ id /= cur'.id => subtitles'[id] = subtitles[id]
              /\ id = cur'.id =>
                    /\ subtitles'[id].language = subtitles[id].language
                    /\ subtitles'[id].hearing_impaired = subtitles[id].hearing_impaired
                    /\ subtitles'[id].subtitle_key = subtitles[id].subtitle_key
                    /\ subtitles'[id].page_link = subtitles[id].page_link
                    /\ subtitles'[id].subtitle_id = subtitles[id].subtitle_id
                    /\ subtitles'[id].series = subtitles[id].series
                    /\ subtitles'[id].season = subtitles[id].season
                    /\ subtitles'[id].episode = subtitles[id].episode
                    /\ subtitles'[id].title = subtitles[id].title
        /\ DOMAIN subtitles' = DOMAIN subtitles \cup {cur'.id}
        /\ cur'.id \notin DOMAIN subtitles =>
              /\ subtitles'[cur'.id].language = FromAlpha2(cur'.language_code)
              /\ subtitles'[cur'.id].hearing_impaired = (cur'.hearing_impaired /= 0)
              /\ subtitles'[cur'.id].subtitle_key = cur'.key
              /\ subtitles'[cur'.id].page_link = page_link

\* C17: when query merges a fragment into an existing record of the same id,
\* only that record's releases and downloaded change: its language,
\* hearing_impaired flag, key and page link, set from the first fragment
\* traversed with that id, stay as they are, and no other record is modified.
C17_MergeChangesOnlyReleasesAndDownloaded == [][MergeFrame]_vars

\* C17 witness: a fragment merged into a record created from a fragment of
\* another language, key and hearing_impaired flag, beside another record
C17_Witness ==
    /\ pc = "loop"
    /\ remaining /= listing
    /\ cur.id \in DOMAIN subtitles
    /\ Len(subtitles[cur.id].releases) >= 2
    /\ subtitles[cur.id].language /= FromAlpha2(cur.language_code)
    /\ subtitles[cur.id].subtitle_key /= cur.key
    /\ subtitles[cur.id].hearing_impaired /= (cur.hearing_impaired /= 0)
    /\ Cardinality(DOMAIN subtitles) = 2

\* ------------------------------------------ order of the network requests
\* C15: within one query the requests are a search and then a listing, each
\* at most once; the listing request is issued only after title resolution
\* has returned, for the slug it returned; a search or listing answer with a
\* non-success status is raised as HTTPError at once, with the failing
\* request the last one issued and no collection returned.
C15_RequestsOrderedFailFast ==
    /\ requests \in {<< >>, <<"search">>, <<"search", "listing">>, <<"listing">>}
    /\ (\E i \in 1..Len(requests) : requests[i] = "listing") =>
          /\ pc \notin {"list_subtitles", "query", "search", "parse", "resolved"}
          /\ Len(history) = 1
          /\ history[1].exc = "none"
          /\ url.slug = Format(history[1].value)
    /\ (r /= NoResponse /\ r.status_code >= 400) =>
          /\ pc = "raised"
          /\ exc = "HTTPError"
          /\ Len(history) = 1
          /\ IF history[1].exc = "HTTPError"
             THEN requests = <<"search">>
             ELSE requests[Len(requests)] = "listing"
    /\ pc = "raised" =>
          /\ query_result = NotReturned
          /\ list_result = NotReturned
          /\ subtitles = << >>

\* C15 witness: the title resolved, then the listing request answered 404
C15_Witness ==
    /\ pc = "raised"
    /\ exc = "HTTPError"
    /\ requests = <<"search", "listing">>
    /\ r.status_code = 404
    /\ history[1].exc = "none"

\* ------------------------------------------------- the cache across calls
\* The next _search_url_title call on the same provider, after the one before
\* it has returned or raised.
resolve_call ==
    /\ UNCHANGED sessionVars
    /\ UNCHANGED recordVars
    /\ pc \in {"resolved", "raised"}
    /\ Len(history) < MaxResolves
    /\ \E title \in {<<"t">>, <<"u">>}, k \in {Movie, Series} :
          /\ call' = [op |-> "_search_url_title", title |-> title, kind |-> k]
          /\ search_title' = title
          /\ kind' = k
    /\ searchResponse' \in PlainSearchResponses
    /\ r' = NoResponse
    /\ suggestions' = NoSuggestions
    /\ url_title' = None
    /\ exc' = "none"
    /\ pc' = "search"
    /\ UNCHANGED <<args, url, page_link, requests, listing, remaining, cur, subtitles,
                   query_result, list_result, cache, history>>

\* The expiration time of one kept entry passes between two calls.
expire ==
    /\ UNCHANGED sessionVars
    /\ UNCHANGED recordVars
    /\ pc \in {"resolved", "raised"}
    /\ Len(history) < MaxResolves
    /\ \E key \in DOMAIN cache :
          /\ cache' = [k \in DOMAIN cache \ {key} |-> cache[k]]
          /\ history' = Append(history, Expired(key))
    /\ UNCHANGED <<call, pc, args, search_title, kind, r, suggestions, url_title, url,
                   page_link, requests, searchResponse, listing, remaining, cur, subtitles,
                   query_result, list_result, exc>>

InitCache ==
    /\ InitLocals
    /\ InitSessionOpen
    /\ cache = << >>
    /\ call \in {[op |-> "_search_url_title", title |-> title, kind |-> k] :
                    title \in {<<"t">>, <<"u">>}, k \in {Movie, Series}}
    /\ search_title = call.title
    /\ kind = call.kind
    /\ args = NoArgs
    /\ pc = "search"
    /\ searchResponse \in PlainSearchResponses
    /\ listing = {}

NextCache ==
    \/ search
    \/ parse
    \/ resolve_call
    \/ expire

SpecCache == InitCache /\ [][NextCache]_vars

\* the calls of the history, by position
IsCall(i) == history[i].exc /= "expired"
SameKey(i, j) == history[i].key = history[j].key
\* no entry of call i's key expired between positions j and i
SameWindow(j, i) ==
    \A m \in (j + 1)..(i - 1) : ~(history[m].exc = "expired" /\ SameKey(m, i))
\* the calls with call i's key in the window call i falls in
WindowOf(i) ==
    {j \in 1..Len(history) : IsCall(j) /\ SameKey(j, i)
                               /\ IF j < i THEN SameWindow(j, i) ELSE SameWindow(i, j)}
\* the earlier calls whose returned value is still kept when call i starts
KeptFor(i) ==
    {j \in 1..(i - 1) : IsCall(j) /\ SameKey(j, i) /\ history[j].exc = "none"
                           /\ SameWindow(j, i)}

\* C12 as stated: the calls with the same (title, kind) and no expiration of
\* that key between them, when there are two or more, issued exactly one
\* search request between them.
C12_ExactlyOneRequestPerWindow ==
    \A i \in 1..Len(history) :
        (IsCall(i) /\ Cardinality(WindowOf(i)) >= 2) =>
            Cardinality({j \in WindowOf(i) : history[j].requested}) = 1

\* C12 amended: a call issues a search request exactly when no earlier call
\* with the same (title, kind) has returned in the current window of that
\* key; a call that returned, with a slug or with None, is answered again with
\* the same value and without a request until its entry expires; a call that
\* raised keeps nothing, so the next call with its key searches again; calls
\* with different keys never share a result.
C12_RequestOnlyOnMiss ==
    \A i \in 1..Len(history) :
        IsCall(i) =>
            /\ history[i].requested <=> (KeptFor(i) = {})
            /\ ~history[i].requested =>
                  /\ history[i].exc = "none"
                  /\ \A j \in KeptFor(i) : history[j].value = history[i].value

\* C12 witness: a call answered from the cache, after a call with another
\* key that had to search
C12_Witness ==
    /\ Len(history) = 3
    /\ history[1].requested /\ history[1].exc = "none" /\ history[1].value /= None
    /\ history[2].requested /\ history[2].key /= history[1].key
    /\ history[2].key[1] = history[1].key[1]
    /\ ~history[3].requested /\ history[3].key = history[1].key
    /\ history[3].value = history[1].value

\* --------------------------------------------------------------- download
\* str.endswith
EndsWith(s, suffix) ==
    Len(s) >= Len(suffix) /\ SubSeq(s, Len(s) - Len(suffix) + 1, Len(s)) = suffix

Txt == <<".", "t", "x", "t">>

\* the entry names and entry bytes the archives enumerated here are made of
EntryNames ==
    {<<"a", ".", "s", "r", "t">>, <<"b", ".", "s", "u", "b">>, <<"r", ".", "t", "x", "t">>,
     <<"t", "x", "t">>}
EntryBytes == {<<"x", "\r", "\n", "y">>, <<"y", "\n">>}
Entries == [name : EntryNames, data : EntryBytes]

\* ZipFile.namelist: the names in archive order
RECURSIVE Namelist(_)
Namelist(archive) ==
    IF archive = << >> THEN << >> ELSE <<Head(archive).name>> \o Namelist(Tail(archive))

\* ZipFile.read(name): the bytes of the last entry of that name
ZfRead(archive, name) ==
    LET i == CHOOSE k \in 1..Len(archive) :
                 /\ archive[k].name = name
                 /\ \A m \in (k + 1)..Len(archive) : archive[m].name /= name
    IN  archive[i].data

\* fix_line_ending: every CR LF pair becomes LF
RECURSIVE FixLineEnding(_)
FixLineEnding(content) ==
    IF Len(content) < 2 THEN content
    ELSE IF content[1] = "\r" /\ content[2] = "\n"
         THEN <<"\n">> \o FixLineEnding(SubSeq(content, 3, Len(content)))
         ELSE <<content[1]>> \o FixLineEnding(Tail(content))

\* the name filter keeping every name
KeptNamesAll(names) == names

\* line 225: the names that do not end in '.txt'
KeptNames(names) == SelectSeq(names, LAMBDA n : ~EndsWith(n, Txt))

\* Subtitle.__init__ leaves content None
WithContent(record, content) == [f \in DOMAIN record \cup {"content"} |->
                                    IF f = "content" THEN content ELSE record[f]]

Alpha2(language) == IF language = "heb" THEN "he" ELSE "en"

\* lines 217-218: the download address, its parameters and the Referer header
DownloadUrl(s) ==
    [endpoint |-> "subtitle/download", alpha2 |-> Alpha2(s.language), id |-> s.subtitle_id,
     v |-> s.releases[1], key |-> s.subtitle_key, referer |-> s.page_link]

\* lines 217-220: the download request and its status check
download_subtitle ==
    /\ UNCHANGED sessionVars
    /\ pc = "download"
    /\ url' = DownloadUrl(subtitle)
    /\ requests' = Append(requests, "download")
    /\ \E status \in {200, 404} :
          /\ r' = Response(status, None, << >>)
          /\ IF RaisesForStatus(status)
             THEN exc' = "HTTPError" /\ pc' = "raised"
             ELSE exc' = exc /\ pc' = "unzip"
    /\ UNCHANGED <<call, args, search_title, kind, suggestions, url_title, page_link,
                   searchResponse, listing, remaining, cur, subtitles, query_result,
                   list_result, cache, history, zf, subtitle, video, matches>>

\* lines 223-229: the archive opened, filtered and read
unzip ==
    /\ UNCHANGED sessionVars
    /\ pc = "unzip"
    /\ \E is_zipfile \in BOOLEAN :
          IF ~is_zipfile
          THEN exc' = "BadZipFile" /\ pc' = "raised" /\ subtitle' = subtitle
          ELSE LET namelist == KeptNames(Namelist(zf))
               IN  IF Len(namelist) > 1
                   THEN exc' = "ProviderError" /\ pc' = "raised" /\ subtitle' = subtitle
                   ELSE IF Len(namelist) = 0
                   THEN exc' = "IndexError" /\ pc' = "raised" /\ subtitle' = subtitle
                   ELSE /\ subtitle' = [subtitle EXCEPT
                                           !.content = FixLineEnding(ZfRead(zf, namelist[1]))]
                        /\ exc' = exc
                        /\ pc' = "downloaded"
    /\ UNCHANGED <<call, args, search_title, kind, r, suggestions, url_title, url, page_link,
                   requests, searchResponse, listing, remaining, cur, subtitles, query_result,
                   list_result, cache, history, zf, video, matches>>

\* the records download_subtitle is given: what query returned earlier
DownloadRecords ==
    {SubsCenterSubtitle("heb", 1, PageLink(Movie, <<"a">>, NoArgs), None, NoneInt, NoneInt,
                        <<"t">>, 41, 101, 3, releases) : releases \in {<<1>>, <<1, 2>>}}

InitDownload ==
    /\ InitSessionOpen
    /\ cache = << >>
    /\ history = << >>
    /\ video = NoVideo
    /\ matches = {}
    /\ r = NoResponse
    /\ suggestions = NoSuggestions
    /\ url_title = None
    /\ url = NoUrl
    /\ page_link = NoUrl
    /\ requests = << >>
    /\ remaining = {}
    /\ cur = NoFragment
    /\ subtitles = << >>
    /\ query_result = NotReturned
    /\ list_result = NotReturned
    /\ exc = "none"
    /\ call = [op |-> "download_subtitle"]
    /\ search_title = None
    /\ kind = None
    /\ args = NoArgs
    /\ searchResponse = NoResponse
    /\ listing = {}
    /\ pc = "download"
    /\ subtitle \in {WithContent(s, None) : s \in DownloadRecords}
    /\ zf \in SeqsUpTo(Entries, MaxEntries)

NextDownload ==
    \/ download_subtitle
    \/ unzip

SpecDownload == InitDownload /\ [][NextDownload]_vars

\* the entries the claim counts: those whose name's last four characters are
\* not '.txt'
Remaining ==
    {i \in 1..Len(zf) :
        LET n == zf[i].name
        IN  ~(Len(n) >= 4 /\ n[Len(n) - 3] = "." /\ n[Len(n) - 2] = "t"
                /\ n[Len(n) - 1] = "x" /\ n[Len(n)] = "t")}

\* the archive has been received and opened, and download_subtitle has ended
Unzipped == pc \in {"downloaded", "raised"} /\ exc \notin {"HTTPError", "BadZipFile"}

\* C13: download_subtitle sets the record's content, to the bytes of the one
\* remaining entry with CR LF turned into LF, if and only if exactly one entry
\* remains once the names ending in '.txt' are left out; with more than one
\* remaining it raises ProviderError and content stays unset; before that and
\* on every other failure content is unset as well.
C13_ContentIffOneEntryRemains ==
    /\ Unzipped =>
          /\ (subtitle.content /= None) <=> (Cardinality(Remaining) = 1)
          /\ \A i \in Remaining :
                Cardinality(Remaining) = 1 =>
                    /\ pc = "downloaded"
                    /\ subtitle.content = FixLineEnding(zf[i].data)
                    /\ \A k \in 1..(Len(subtitle.content) - 1) :
                          ~(subtitle.content[k] = "\r" /\ subtitle.content[k + 1] = "\n")
          /\ Cardinality(Remaining) > 1 => (pc = "raised" /\ exc = "ProviderError")
    /\ (call.op = "download_subtitle" /\ ~Unzipped) => subtitle.content = None

\* C13 witness: a '.txt' entry and one other entry, whose bytes held a CR LF
C13_Witness ==
    /\ pc = "downloaded"
    /\ Len(zf) = 2
    /\ zf[1].name = <<"r", ".", "t", "x", "t">>
    /\ zf[2].data = <<"x", "\r", "\n", "y">>
    /\ subtitle.content = <<"x", "\n", "y">>

\* ---------------------------------------------------------------- matches
\* sanitize: None stays None; '-', ':', '(', ')' and '.' become a space, runs
\* of spaces collapse to one, the ends are stripped, letters are lowered
Lower(c) == CASE c = "A" -> "a" [] c = "B" -> "b" [] c = "T" -> "t" [] OTHER -> c
Spaced(c) == IF c \in {"-", ":", "(", ")", "."} THEN " " ELSE c

RECURSIVE Collapse(_)
Collapse(s) ==
    IF s = << >> THEN << >>
    ELSE IF s[1] = " " /\ (Len(s) = 1 \/ s[2] = " ") THEN Collapse(Tail(s))
    ELSE <<s[1]>> \o Collapse(Tail(s))

Strip(s) == IF s /= << >> /\ s[1] = " " THEN Tail(s) ELSE s

Sanitize(s) ==
    IF s = None THEN None
    ELSE Strip(Collapse([i \in 1..Len(s) |-> Lower(Spaced(s[i]))]))

\* guessit on a release name, with the expected type as a hint: the attributes
\* the name reveals
Guessit(release, type) ==
    [screen_size |-> IF release = 1 THEN "720p" ELSE "1080p",
     release_group |-> IF release = 1 THEN "none" ELSE "grp"]

\* guess_matches: the attributes of the guess the video has with equal value
GuessMatches(v, guess) ==
    (IF v.resolution /= "none" /\ guess.screen_size = v.resolution
     THEN {"resolution"} ELSE {})
    \cup (IF v.release_group /= "none" /\ guess.release_group = v.release_group
          THEN {"release_group"} ELSE {})

\* lines 57-58 and 62-63: the tags of every release of the record
ReleaseMatches(self, v, type) ==
    UNION {GuessMatches(v, Guessit(self.releases[i], type)) : i \in 1..Len(self.releases)}

\* get_matches comparing the series strings as they are
GetMatchesRawSeries(self, v) ==
    (IF v.type = "Episode"
     THEN (IF TruthyStr(v.series) /\ self.series = v.series THEN {"series"} ELSE {})
          \cup (IF TruthyInt(v.season) /\ self.season = v.season THEN {"season"} ELSE {})
          \cup (IF TruthyInt(v.episode) /\ self.episode = v.episode THEN {"episode"} ELSE {})
          \cup ReleaseMatches(self, v, "episode")
     ELSE ReleaseMatches(self, v, "movie"))
    \cup (IF TruthyStr(v.title) /\ Sanitize(self.title) = Sanitize(v.title)
          THEN {"title"} ELSE {})

\* lines 42-69
GetMatches(self, v) ==
    (IF v.type = "Episode"
     THEN (IF TruthyStr(v.series) /\ Sanitize(self.series) = Sanitize(v.series)
           THEN {"series"} ELSE {})
          \cup (IF TruthyInt(v.season) /\ self.season = v.season THEN {"season"} ELSE {})
          \cup (IF TruthyInt(v.episode) /\ self.episode = v.episode THEN {"episode"} ELSE {})
          \cup ReleaseMatches(self, v, "episode")
     ELSE ReleaseMatches(self, v, "movie"))
    \cup (IF TruthyStr(v.title) /\ Sanitize(self.title) = Sanitize(v.title)
          THEN {"title"} ELSE {})

get_matches ==
    /\ UNCHANGED sessionVars
    /\ UNCHANGED queryVars
    /\ pc = "get_matches"
    /\ matches' = GetMatches(subtitle, video)
    /\ pc' = "matched"
    /\ UNCHANGED <<call, requests, exc, history, zf, subtitle, video>>

\* the series and title strings of the videos and records enumerated here
SeriesNames == {Empty, <<"a", " ", "b">>, <<"A", ".", "b">>, <<"c">>}
Titles == {None, <<"t">>, <<"T">>}

\* Video.resolution and Video.release_group, beside the fields of the class
WithAttributes(v, resolution, release_group) ==
    [f \in DOMAIN v \cup {"resolution", "release_group"} |->
        IF f = "resolution" THEN resolution
        ELSE IF f = "release_group" THEN release_group ELSE v[f]]

MatchVideos ==
    {WithAttributes(Episode(series, season, episode, title), "720p", release_group) :
        series \in SeriesNames, season \in {0, 1}, episode \in {0, 1},
        title \in {None, <<"t">>}, release_group \in {"none", "grp"}}
    \cup {WithAttributes(MovieVideo(<<"t">>), "720p", release_group) :
              release_group \in {"none", "grp"}}

\* records as query builds them, for a series or for a movie query
MatchRecords ==
    {SubsCenterSubtitle("heb", 0, NoUrl, series, season, episode, title, 41, 101, 3, releases) :
        series \in SeriesNames \ {Empty}, season \in {0, 1}, episode \in {0, 1},
        title \in Titles, releases \in {<<1>>, <<1, 2>>}}
    \cup {SubsCenterSubtitle("heb", 0, NoUrl, None, NoneInt, NoneInt, title, 41, 101, 3, <<2>>) :
              title \in Titles \ {None}}

InitMatches ==
    /\ InitSessionOpen
    /\ cache = << >>
    /\ history = << >>
    /\ zf = << >>
    /\ matches = {}
    /\ r = NoResponse
    /\ suggestions = NoSuggestions
    /\ url_title = None
    /\ url = NoUrl
    /\ page_link = NoUrl
    /\ requests = << >>
    /\ remaining = {}
    /\ cur = NoFragment
    /\ subtitles = << >>
    /\ query_result = NotReturned
    /\ list_result = NotReturned
    /\ exc = "none"
    /\ call = [op |-> "get_matches"]
    /\ search_title = None
    /\ kind = None
    /\ args = NoArgs
    /\ searchResponse = NoResponse
    /\ listing = {}
    /\ pc = "get_matches"
    /\ subtitle \in MatchRecords
    /\ video \in MatchVideos

NextMatches == get_matches

SpecMatches == InitMatches /\ [][NextMatches]_vars

\* the two strings are equal once case is folded and punctuation and spacing
\* are collapsed
NormalizedEqual(a, b) == Sanitize(a) = Sanitize(b)

\* the tags derived from the record's release strings
ReleaseTags ==
    {t \in {"resolution", "release_group"} :
        \E i \in 1..Len(subtitle.releases) :
            t \in GuessMatches(video, Guessit(subtitle.releases[i],
                                              IF video.type = "Episode" THEN "episode"
                                              ELSE "movie"))}

initialize ==
    /\ ncalls < MaxCalls
    /\ ncalls' = ncalls + 1
    /\ call' = [op |-> "initialize"]
    /\ session' = ncalls + 1
    /\ open_sessions' = open_sessions \cup {ncalls + 1}
    /\ IF username /= None /\ password /= None
       THEN \E no_csrftoken \in BOOLEAN, status_code \in {200, 302} :
               IF no_csrftoken
               THEN /\ requests' = Append(requests, "login page")
                    /\ exc' = "KeyError"
                    /\ pc' = "initialize raised"
                    /\ logged_in' = logged_in
               ELSE /\ requests' = requests \o <<"login page", "login">>
                    /\ IF status_code /= 302
                       THEN /\ exc' = "AuthenticationError"
                            /\ pc' = "initialize raised"
                            /\ logged_in' = logged_in
                       ELSE /\ exc' = "none"
                            /\ pc' = "initialized"
                            /\ logged_in' = TRUE
       ELSE /\ exc' = "none"
            /\ pc' = "initialized"
            /\ UNCHANGED <<requests, logged_in>>
    /\ UNCHANGED <<username, password>>
    /\ UNCHANGED queryVars
    /\ UNCHANGED <<history, zf, subtitle, video, matches>>

\* lines 107-116
terminate ==
    /\ ncalls < MaxCalls
    /\ ncalls' = ncalls + 1
    /\ call' = [op |-> "terminate"]
    /\ IF logged_in
       THEN /\ requests' = Append(requests, "logout")
            /\ \E status_code \in {200, 500} :
                  IF RaisesForStatus(status_code)
                  THEN /\ exc' = "HTTPError"
                       /\ pc' = "terminate raised"
                       /\ UNCHANGED <<logged_in, open_sessions>>
                  ELSE /\ exc' = "none"
                       /\ pc' = "terminated"
                       /\ logged_in' = FALSE
                       /\ open_sessions' = open_sessions \ {session}
       ELSE IF session = 0
            THEN /\ exc' = "AttributeError"
                 /\ pc' = "terminate raised"
                 /\ UNCHANGED <<requests, logged_in, open_sessions>>
            ELSE /\ exc' = "none"
                 /\ pc' = "terminated"
                 /\ open_sessions' = open_sessions \ {session}
                 /\ UNCHANGED <<requests, logged_in>>
    /\ UNCHANGED <<username, password, session>>
    /\ UNCHANGED queryVars
    /\ UNCHANGED <<history, zf, subtitle, video, matches>>

\* lines 76-82: a provider constructed without or with credentials
InitSession ==
    /\ InitLocals
    /\ cache = << >>
    /\ search_title = None
    /\ kind = None
    /\ args = NoArgs
    /\ searchResponse = NoResponse
    /\ listing = {}
    /\ call = [op |-> "__init__"]
    /\ pc = "constructed"
    /\ \/ username = None /\ password = None
       \/ username = <<"u">> /\ password = <<"p">>
    /\ logged_in = FALSE
    /\ session = 0
    /\ open_sessions = {}
    /\ ncalls = 0

NextSession ==
    \/ initialize
    \/ terminate

SpecSession == InitSession /\ [][NextSession]_vars

\* C6: whenever initialize has raised or terminate has returned or raised, the
\* session of the provider is closed.
C6_SessionReleasedOnEveryExit ==
    pc \in {"initialize raised", "terminated", "terminate raised"} =>
        session \notin open_sessions

\* one initialize or terminate call, as the claim C16 describes it
LoginStep ==
    /\ (call'.op = "initialize" /\ logged_in') =>
          /\ pc' = "initialized"
          /\ username /= None /\ password /= None
          /\ requests' = requests \o <<"login page", "login">>
    /\ (call'.op = "initialize" /\ exc' = "AuthenticationError") => ~logged_in'
    /\ call'.op = "terminate" => ((requests' = Append(requests, "logout")) <=> logged_in)
    /\ pc' = "terminated" => ~logged_in'

\* C16: across initialize and terminate calls, logged_in is true after an
\* initialize only if that initialize sent the credentials and its login POST
\* was answered 302; an initialize that raises AuthenticationError leaves
\* logged_in false; terminate sends the logout request if and only if
\* logged_in was true; after a terminate that completes logged_in is false.
C16_LoggedInFollowsLastLogin == [][LoginStep]_vars

====
